---- MODULE Spec2Model ----
(***************************************************************************)
(* Model of the toroidal Game of Life engine of src/src/lib.rs: the        *)
(* Universe (width, height, cells), its exported operations, and the       *)
(* sweep of tick() cell by cell.                                           *)
(*                                                                         *)
(* The cell buffer is a function 0..(n-1) -> {Dead, Alive}, indexed as the *)
(* Vec<Cell> of the program.  A Rust panic (index out of bounds) leaves    *)
(* the universe in the state it had at the panic and sets err = "panic";   *)
(* no operation is accepted afterwards.  All u32 values of the model stay  *)
(* far below 2^32, so no arithmetic of the model wraps.                    *)
(***************************************************************************)
EXTENDS Integers, Sequences, FiniteSets, TLC

VARIABLES
  width,    \* Universe.width
  height,   \* Universe.height
  cells,    \* Universe.cells
  err,      \* "ok", or "panic" once an operation has panicked
  pc,       \* "idle" between calls, "sweep" inside tick()
  next,     \* the local buffer `next` of tick(); <<>> outside tick()
  row,      \* loop variable `row` of tick()
  col,      \* loop variable `col` of tick()
  op,       \* history: the last call, [name, args]
  streak,   \* history: how many times in a row that same call was made
  before    \* history: the cells before the first call of that streak

vars == <<width, height, cells, err, pc, next, row, col, op, streak, before>>

-----------------------------------------------------------------------------
(* Bounds of the model. *)

\* Spec: widths and heights are 0..MaxDim ...
MaxDim == 3
\* ... with at most MaxCells cells.
MaxCells == 9
\* SpecPat: widths are 6..MaxPatWidth, heights 6..MaxPatHeight.
MaxPatWidth == 9
MaxPatHeight == 7
\* SpecLife: widths and heights are 3..MaxLifeDim.
MaxLifeDim == 6
\* SpecPat: the initial population has every stride-th cell Alive, 0..MaxStride.
MaxStride == 2
\* The same call (same operation, same arguments) is made at most MaxRepeat
\* times in a row.
MaxRepeat == 2

-----------------------------------------------------------------------------
(* Cell *)

Dead == 0
Alive == 1

\* A toggle that only ever switches on.
toggle_on(cell) == Alive

\* Cell::toggle
toggle(cell) == IF cell = Dead THEN Alive ELSE Dead

\* Vec::len
len(C) == Cardinality(DOMAIN C)

\* (0..n).map(|_i| Cell::Dead).collect()
DeadCells(n) == [i \in 0..(n - 1) |-> Dead]

-----------------------------------------------------------------------------
(* Pattern constants, as (column, row) pairs *)

SPACESHIP == << <<0,0>>, <<1,0>>, <<2,0>>, <<3,0>>, <<0,1>>, <<4,1>>, <<0,2>>, <<1,3>>, <<4,3>> >>
RPENTOMINO == << <<0,0>>, <<0,1>>, <<1,1>>, <<2,1>>, <<1,2>> >>
PIHEPTOMINO == << <<0,0>>, <<1,0>>, <<2,0>>, <<0,1>>, <<2,1>>, <<0,2>>, <<2,2>> >>
GLIDER == << <<1,2>>, <<2,3>>, <<3,1>>, <<3,2>>, <<3,3>> >>

-----------------------------------------------------------------------------
(* Pure functions of Universe *)

\* Universe::get_index
get_index(w, r, c) == r * w + c

\* The column deltas with self.width for self.width - 1: the column to the
\* left is never looked at.
delta_cols_off(w) == <<w, 0, 1>>

\* The deltas of live_neighbor_count: [self.height - 1, 0, 1] and
\* [self.width - 1, 0, 1].
delta_rows(h) == <<h - 1, 0, 1>>
delta_cols(w) == <<w - 1, 0, 1>>

\* The inner loop body with || for && in its test: only the diagonal
\* neighbours are counted.
neighbor_term_or(C, w, h, r, c, delta_row, delta_col) ==
  IF delta_row = 0 \/ delta_col = 0
  THEN 0
  ELSE C[get_index(w, (r + delta_row) % h, (c + delta_col) % w)]

\* The inner loop body without its test: the cell counts itself.
neighbor_term_noskip(C, w, h, r, c, delta_row, delta_col) ==
  C[get_index(w, (r + delta_row) % h, (c + delta_col) % w)]

\* One iteration of the inner loop of live_neighbor_count: what it adds to count.
neighbor_term(C, w, h, r, c, delta_row, delta_col) ==
  IF delta_row = 0 /\ delta_col = 0
  THEN 0
  ELSE C[get_index(w, (r + delta_row) % h, (c + delta_col) % w)]

\* The inner loop, for one delta_row.
neighbor_row(C, w, h, r, c, delta_row) ==
    neighbor_term(C, w, h, r, c, delta_row, delta_cols(w)[1])
  + neighbor_term(C, w, h, r, c, delta_row, delta_cols(w)[2])
  + neighbor_term(C, w, h, r, c, delta_row, delta_cols(w)[3])

\* Universe::live_neighbor_count (called with width >= 1 and height >= 1 only)
live_neighbor_count(C, w, h, r, c) ==
    neighbor_row(C, w, h, r, c, delta_rows(h)[1])
  + neighbor_row(C, w, h, r, c, delta_rows(h)[2])
  + neighbor_row(C, w, h, r, c, delta_rows(h)[3])

\* The (row, column) arguments of the get_index calls of one iteration of
\* the inner loop of tick(): the cell itself, and in live_neighbor_count
\* the wrapped neighbour of every delta pair that is not skipped.
tick_index_args(w, h, r, c) ==
  {<<r, c>>} \cup
  {<<(r + delta_rows(h)[i]) % h, (c + delta_cols(w)[j]) % w>> :
     <<i, j>> \in {p \in (1..3) \X (1..3) :
                    ~(delta_rows(h)[p[1]] = 0 /\ delta_cols(w)[p[2]] = 0)}}

\* A plausible slip in the match of tick(): a live cell with four
\* neighbours survives.
next_cell_survive4(cell, live_neighbors) ==
  IF cell = Alive /\ live_neighbors < 2 THEN Dead
  ELSE IF cell = Alive /\ live_neighbors \in {2, 3, 4} THEN Alive
  ELSE IF cell = Alive /\ live_neighbors > 4 THEN Dead
  ELSE IF cell = Dead /\ live_neighbors = 3 THEN Alive
  ELSE cell

\* The match of tick() with `x if x <= 3` in the arm of rule 4: a Dead cell
\* with no live neighbour is born.
next_cell_born_le3(cell, live_neighbors) ==
  IF cell = Alive /\ live_neighbors < 2 THEN Dead
  ELSE IF cell = Alive /\ live_neighbors \in {2, 3} THEN Alive
  ELSE IF cell = Alive /\ live_neighbors > 3 THEN Dead
  ELSE IF cell = Dead /\ live_neighbors <= 3 THEN Alive
  ELSE cell

\* The match of tick(), arm by arm.
next_cell(cell, live_neighbors) ==
  IF cell = Alive /\ live_neighbors < 2 THEN Dead
  ELSE IF cell = Alive /\ live_neighbors \in {2, 3} THEN Alive
  ELSE IF cell = Alive /\ live_neighbors > 3 THEN Dead
  ELSE IF cell = Dead /\ live_neighbors = 3 THEN Alive
  ELSE cell

\* Universe::clear_grid
clear_grid(C) == [i \in DOMAIN C |-> Dead]

\* `middle` of set_cells
middle(w, h) == w * (h \div 2) + w \div 2

\* The loop of set_cells from its k-th pair on: each pair sets
\* cells[idx + middle] Alive; an index past the end of the buffer panics and
\* leaves the cells set so far.
RECURSIVE place(_, _, _, _, _)
place(C, w, mid, offsets, k) ==
  IF k > Len(offsets)
  THEN [cells |-> C, err |-> "ok"]
  ELSE LET idx == get_index(w, offsets[k][2], offsets[k][1])
       IN  IF idx + mid >= len(C)
           THEN [cells |-> C, err |-> "panic"]
           ELSE place([C EXCEPT ![idx + mid] = Alive], w, mid, offsets, k + 1)

\* The (row, column) arguments of the get_index calls of the loop of
\* set_cells on a buffer of n cells: the call for a pair is made before the
\* buffer is indexed, so the pairs up to the first that panics make one.
place_index_args(n, w, mid, offsets) ==
  {<<offsets[k][2], offsets[k][1]>> :
     k \in {j \in DOMAIN offsets :
              \A i \in 1..(j - 1) :
                get_index(w, offsets[i][2], offsets[i][1]) + mid < n}}

\* set_cells as in the book this program started from: no clear_grid first.
set_cells_noclear(C, w, h, offsets) == place(C, w, middle(w, h), offsets, 1)

\* Universe::set_cells
set_cells(C, w, h, offsets) == place(clear_grid(C), w, middle(w, h), offsets, 1)

\* Universe::make_spaceship
make_spaceship(C, w, h) == set_cells(clear_grid(C), w, h, SPACESHIP)

\* Universe::make_rpentamino
make_rpentamino(C, w, h) == set_cells(C, w, h, RPENTOMINO)

\* Universe::make_piheptomino
make_piheptomino(C, w, h) == set_cells(clear_grid(C), w, h, PIHEPTOMINO)

\* The loop of a placement that draws with Cell::toggle.
RECURSIVE place_toggle(_, _, _, _, _)
place_toggle(C, w, mid, offsets, k) ==
  IF k > Len(offsets)
  THEN [cells |-> C, err |-> "ok"]
  ELSE LET idx == get_index(w, offsets[k][2], offsets[k][1])
       IN  IF idx + mid >= len(C)
           THEN [cells |-> C, err |-> "panic"]
           ELSE place_toggle([C EXCEPT ![idx + mid] = toggle(@)], w, mid, offsets, k + 1)

\* make_glider that draws the glider by toggling and clears nothing.
make_glider_toggle(C, w, h) == place_toggle(C, w, middle(w, h), GLIDER, 1)

\* Universe::make_glider
make_glider(C, w, h) == set_cells(clear_grid(C), w, h, GLIDER)

\* set_width that sets the field and keeps the old buffer.
set_width_stale(C, w0, h0, w) == [width |-> w, height |-> h0, cells |-> C]

\* Universe::set_width
set_width(C, w0, h0, w) == [width |-> w, height |-> h0, cells |-> DeadCells(w * h0)]

\* set_height copied from set_width with the field left as it was: it
\* assigns self.width.
set_height_slip(C, w0, h0, h) == [width |-> h, height |-> h0, cells |-> DeadCells(h * h0)]

\* Universe::set_height
set_height(C, w0, h0, h) == [width |-> w0, height |-> h, cells |-> DeadCells(w0 * h)]

\* A resize that crops or pads: it keeps the old content of every index the
\* new buffer still has.
set_dimensions_keep(C, w0, h0, w, h) ==
  [width |-> w, height |-> h,
   cells |-> [i \in 0..(w * h - 1) |-> IF i \in DOMAIN C THEN C[i] ELSE Dead]]

\* Universe::set_dimensions
set_dimensions(C, w0, h0, w, h) == [width |-> w, height |-> h, cells |-> DeadCells(w * h)]

\* toggle_cell that only ever switches a cell on.
toggle_cell_set(C, w, r, c) ==
  LET idx == get_index(w, r, c)
  IN  IF idx >= len(C)
      THEN [cells |-> C, err |-> "panic"]
      ELSE [cells |-> [C EXCEPT ![idx] = Alive], err |-> "ok"]

\* Universe::toggle_cell: an index past the end of the buffer panics.
toggle_cell(C, w, r, c) ==
  LET idx == get_index(w, r, c)
  IN  IF idx >= len(C)
      THEN [cells |-> C, err |-> "panic"]
      ELSE [cells |-> [C EXCEPT ![idx] = toggle(@)], err |-> "ok"]

-----------------------------------------------------------------------------
(* Inputs *)

\* The sizes of Spec.
Sizes == {s \in (0..MaxDim) \X (0..MaxDim) : s[1] * s[2] <= MaxCells}

\* The sizes of SpecPat: the patterns fit from 5 x 5 (R-pentomino,
\* pi-heptomino), 7 x 7 (glider) and 9 x 7 (spaceship) on.
PatSizes == (6..MaxPatWidth) \X (6..MaxPatHeight)

\* The sizes of SpecLife.
LifeSizes == (3..MaxLifeDim) \X (3..MaxLifeDim)

\* The population whose Alive cells are the flat indices of S.
WithAlive(n, S) == [i \in 0..(n - 1) |-> IF i \in S THEN Alive ELSE Dead]

\* The 2 x 2 block whose upper left cell is (r, c), on the torus.
BlockAt(w, h, r, c) ==
  {get_index(w, r, c), get_index(w, r, (c + 1) % w),
   get_index(w, (r + 1) % h, c), get_index(w, (r + 1) % h, (c + 1) % w)}

\* The blinkers whose middle cell is (r, c): three cells in a row, in a column.
BlinkerRowAt(w, h, r, c) ==
  {get_index(w, r, (c + w - 1) % w), get_index(w, r, c), get_index(w, r, (c + 1) % w)}

BlinkerColumnAt(w, h, r, c) ==
  {get_index(w, (r + h - 1) % h, c), get_index(w, r, c), get_index(w, (r + 1) % h, c)}

\* The populations of SpecLife: the single cell (0, 0), and a block or a
\* blinker anywhere.
Seeds(w, h) ==
  {{get_index(w, 0, 0)}}
    \cup {BlockAt(w, h, r, c) : r \in 0..(h - 1), c \in 0..(w - 1)}
    \cup {BlinkerRowAt(w, h, r, c) : r \in 0..(h - 1), c \in 0..(w - 1)}
    \cup {BlinkerColumnAt(w, h, r, c) : r \in 0..(h - 1), c \in 0..(w - 1)}

\* The offset lists given to set_cells, as (column, row) pairs.
OffsetLists ==
  << << >>,
     << <<0,0>> >>,
     << <<0,0>>, <<1,0>>, <<0,1>> >>,
     << <<1,0>>, <<2,0>>, <<0,1>> >>,
     << <<1,1>>, <<0,0>>, <<1,1>> >> >>

\* `populate` of SpecPat: every stride-th cell Alive, none for stride 0.
Strided(n, stride) ==
  [i \in 0..(n - 1) |-> IF stride > 0 /\ i % stride = 0 THEN Alive ELSE Dead]

-----------------------------------------------------------------------------
(* The state machine *)

\* Universe::new, the random draws being any population.
Init ==
  /\ \E s \in Sizes :
       /\ width = s[1]
       /\ height = s[2]
       /\ cells \in [0..(s[1] * s[2] - 1) -> {Dead, Alive}]
       /\ op = [name |-> "new", args |-> <<s[1], s[2]>>]
  /\ err = "ok"
  /\ pc = "idle"
  /\ next = << >>
  /\ row = 0
  /\ col = 0
  /\ streak = 1
  /\ before = << >>

\* Universe::new on the larger grids, with a strided population.
InitPat ==
  /\ \E s \in PatSizes, stride \in 0..MaxStride :
       /\ width = s[1]
       /\ height = s[2]
       /\ cells = Strided(s[1] * s[2], stride)
       /\ op = [name |-> "new", args |-> <<s[1], s[2]>>]
  /\ err = "ok"
  /\ pc = "idle"
  /\ next = << >>
  /\ row = 0
  /\ col = 0
  /\ streak = 1
  /\ before = << >>

\* Universe::new with a block, a blinker or a single cell as population.
InitLife ==
  /\ \E s \in LifeSizes :
       /\ width = s[1]
       /\ height = s[2]
       /\ \E S \in Seeds(s[1], s[2]) : cells = WithAlive(s[1] * s[2], S)
       /\ op = [name |-> "new", args |-> <<s[1], s[2]>>]
  /\ err = "ok"
  /\ pc = "idle"
  /\ next = << >>
  /\ row = 0
  /\ col = 0
  /\ streak = 1
  /\ before = << >>

SameCall(name, args) == op.name = name /\ op.args = args

\* A call is accepted between calls, while nothing has panicked.
CanCall(name, args) ==
  /\ pc = "idle"
  /\ err = "ok"
  /\ ~(SameCall(name, args) /\ streak >= MaxRepeat)

\* The history of a call.
Called(name, args) ==
  /\ op' = [name |-> name, args |-> args]
  /\ streak' = IF SameCall(name, args) THEN streak + 1 ELSE 1
  /\ before' = IF SameCall(name, args) THEN before ELSE cells

\* tick(), line 108: let mut next = self.cells.clone(); the loops start.
TickBegin ==
  /\ CanCall("tick", << >>)
  /\ Called("tick", << >>)
  /\ next' = cells
  /\ row' = IF width = 0 THEN height ELSE 0
  /\ col' = 0
  /\ pc' = "sweep"
  /\ UNCHANGED <<width, height, cells, err>>

\* A sweep that updates the grid in place: the new value is written to
\* self.cells as well, so later iterations read a half-updated grid.
TickCellInPlace ==
  /\ pc = "sweep"
  /\ row < height
  /\ LET idx == get_index(width, row, col)
         cell == cells[idx]
         live_neighbors == live_neighbor_count(cells, width, height, row, col)
     IN  /\ next' = [next EXCEPT ![idx] = next_cell(cell, live_neighbors)]
         /\ cells' = [cells EXCEPT ![idx] = next_cell(cell, live_neighbors)]
  /\ IF col + 1 < width
     THEN row' = row /\ col' = col + 1
     ELSE row' = row + 1 /\ col' = 0
  /\ UNCHANGED <<width, height, err, pc, op, streak, before>>

\* tick(), lines 112-133: one iteration of the inner loop.
TickCell ==
  /\ pc = "sweep"
  /\ row < height
  /\ LET idx == get_index(width, row, col)
         cell == cells[idx]
         live_neighbors == live_neighbor_count(cells, width, height, row, col)
     IN  next' = [next EXCEPT ![idx] = next_cell(cell, live_neighbors)]
  /\ IF col + 1 < width
     THEN row' = row /\ col' = col + 1
     ELSE row' = row + 1 /\ col' = 0
  /\ UNCHANGED <<width, height, cells, err, pc, op, streak, before>>

\* tick(), line 137: self.cells = next.
TickEnd ==
  /\ pc = "sweep"
  /\ row >= height
  /\ cells' = next
  /\ next' = << >>
  /\ row' = 0
  /\ col' = 0
  /\ pc' = "idle"
  /\ UNCHANGED <<width, height, err, op, streak, before>>

ToggleCell(r, c) ==
  /\ CanCall("toggle_cell", <<r, c>>)
  /\ Called("toggle_cell", <<r, c>>)
  /\ LET res == toggle_cell(cells, width, r, c)
     IN  cells' = res.cells /\ err' = res.err
  /\ UNCHANGED <<width, height, pc, next, row, col>>

Resize(name, args, u) ==
  /\ CanCall(name, args)
  /\ Called(name, args)
  /\ width' = u.width
  /\ height' = u.height
  /\ cells' = u.cells
  /\ UNCHANGED <<err, pc, next, row, col>>

SetWidth(w) == Resize("set_width", <<w>>, set_width(cells, width, height, w))

SetHeight(h) == Resize("set_height", <<h>>, set_height(cells, width, height, h))

SetDimensions(w, h) ==
  Resize("set_dimensions", <<w, h>>, set_dimensions(cells, width, height, w, h))

Place(name, args, res) ==
  /\ CanCall(name, args)
  /\ Called(name, args)
  /\ cells' = res.cells
  /\ err' = res.err
  /\ UNCHANGED <<width, height, pc, next, row, col>>

\* set_cells with the k-th offset list.
SetCells(k) == Place("set_cells", <<k>>, set_cells(cells, width, height, OffsetLists[k]))

MakeSpaceship == Place("make_spaceship", << >>, make_spaceship(cells, width, height))

MakeRpentamino == Place("make_rpentamino", << >>, make_rpentamino(cells, width, height))

MakePiheptomino == Place("make_piheptomino", << >>, make_piheptomino(cells, width, height))

MakeGlider == Place("make_glider", << >>, make_glider(cells, width, height))

Tick == TickBegin \/ TickCell \/ TickEnd

\* Every operation, on the small grids: any cell and the ones just out of
\* range are toggled, and a resize goes to any of Sizes.
Next ==
  \/ TickBegin
  \/ TickCell
  \/ TickEnd
  \/ \E r \in 0..height, c \in 0..width : ToggleCell(r, c)
  \/ \E w \in 0..MaxDim : <<w, height>> \in Sizes /\ SetWidth(w)
  \/ \E h \in 0..MaxDim : <<width, h>> \in Sizes /\ SetHeight(h)
  \/ \E s \in Sizes : SetDimensions(s[1], s[2])
  \/ \E k \in DOMAIN OffsetLists : SetCells(k)
  \/ MakeSpaceship
  \/ MakeRpentamino
  \/ MakePiheptomino
  \/ MakeGlider

Spec == Init /\ [][Next]_vars

\* The operations that seed, advance and resize, on the larger grids.
NextPat ==
  \/ TickBegin
  \/ TickCell
  \/ TickEnd
  \/ \E s \in PatSizes : SetDimensions(s[1], s[2])
  \/ \E k \in DOMAIN OffsetLists : SetCells(k)
  \/ MakeSpaceship
  \/ MakeRpentamino
  \/ MakePiheptomino
  \/ MakeGlider

SpecPat == InitPat /\ [][NextPat]_vars

\* The generations of a seeded grid.
NextLife ==
  \/ TickBegin
  \/ TickCell
  \/ TickEnd

SpecLife == InitLife /\ [][NextLife]_vars

-----------------------------------------------------------------------------
(* Properties *)

InRange(r, c) == r < height /\ c < width

\* The transition rule as the specification words it.
RuleOfLife(cell, n) ==
  IF cell = Alive /\ (n < 2 \/ n > 3) THEN Dead
  ELSE IF cell = Dead /\ n = 3 THEN Alive
  ELSE cell

\* One generation computed at once from the grid C.
Generation(C, w, h) ==
  [i \in DOMAIN C |->
     RuleOfLife(C[i], live_neighbor_count(C, w, h, i \div w, i % w))]

RECURSIVE Generations(_, _, _, _)
Generations(C, w, h, n) ==
  IF n = 0 THEN C ELSE Generations(Generation(C, w, h), w, h, n - 1)

\* C1: after tick() every cell is the rule's result for its state and its
\* live_neighbor_count in the grid as it was before the tick; after n
\* ticks in a row the grid is the n-th generation of the grid before them.
C1_TickIsSimultaneous ==
  (op.name = "tick" /\ pc = "idle") =>
    cells = Generations(before, width, height, streak)

\* C1 witness: one tick of a 3 x 3 grid in which cells were born and cells
\* survived; a sweep that counted already updated cells would not have let
\* every Dead cell be born.
C1_Witness ==
  /\ op.name = "tick" /\ pc = "idle" /\ streak = 1
  /\ width = 3 /\ height = 3
  /\ \E i \in DOMAIN cells : before[i] = Alive /\ cells[i] = Alive
  /\ \A i \in DOMAIN cells : before[i] = Dead => cells[i] = Alive
  /\ \E i \in DOMAIN cells : before[i] = Dead

\* C2: the cell buffer holds width * height cells, indexed from 0, in every
\* reachable state.
C2_BufferLength ==
  /\ len(cells) = width * height
  /\ DOMAIN cells = 0..(width * height - 1)

\* C2 witness: set_width has changed the length of a populated buffer.
C2_Witness ==
  /\ op.name = "set_width"
  /\ len(before) > 0
  /\ len(cells) > 0
  /\ len(cells) # len(before)
  /\ \E i \in DOMAIN before : before[i] = Alive

\* The neighbour count as the specification words it: the offset pairs in
\* {-1,0,1} x {-1,0,1} other than (0,0) whose wrapped cell is Alive.
OffsetCount(C, w, h, r, c) ==
  Cardinality({d \in ({-1, 0, 1} \X {-1, 0, 1}) \ {<<0, 0>>} :
     C[get_index(w, (r + d[1] + h) % h, (c + d[2] + w) % w)] = Alive})

\* C3: on every grid with width >= 1 and height >= 1, live_neighbor_count
\* is the number of the 8 offset pairs whose wrapped cell is Alive.
C3_CountsEightOffsets ==
  (width >= 1 /\ height >= 1 /\ pc = "idle") =>
    \A r \in 0..(height - 1), c \in 0..(width - 1) :
      live_neighbor_count(cells, width, height, r, c)
        = OffsetCount(cells, width, height, r, c)

\* C4: after set_dimensions(w2, h2) the width is w2, the height h2, the
\* buffer holds w2 * h2 cells and every cell is Dead.
C4_ResizeResets ==
  op.name = "set_dimensions" =>
    /\ width = op.args[1]
    /\ height = op.args[2]
    /\ len(cells) = op.args[1] * op.args[2]
    /\ \A i \in DOMAIN cells : cells[i] = Dead

\* C4 witness: set_dimensions on a grid that held Alive cells, to another
\* size that has cells.
C4_Witness ==
  /\ op.name = "set_dimensions"
  /\ len(cells) > 0
  /\ len(cells) # len(before)
  /\ \E i \in DOMAIN before : before[i] = Alive

\* A step that is a call of the operation `name`.
CallOf(name) == pc = "idle" /\ err = "ok" /\ op'.name = name /\ <<op, streak>>' # <<op, streak>>

\* C5: toggle_cell(row, column) with row < height and column < width turns
\* the cell at row * width + column from Dead to Alive or from Alive to
\* Dead, and changes no other cell, nor the width, nor the height.
C5_ToggleFlipsOne ==
  [][(CallOf("toggle_cell") /\ InRange(op'.args[1], op'.args[2])) =>
       LET idx == op'.args[1] * width + op'.args[2]
       IN  /\ err' = "ok"
           /\ cells[idx] = Dead => cells'[idx] = Alive
           /\ cells[idx] = Alive => cells'[idx] = Dead
           /\ DOMAIN cells' = DOMAIN cells
           /\ \A i \in DOMAIN cells : i # idx => cells'[i] = cells[i]
           /\ width' = width
           /\ height' = height]_vars

\* C5 witness: an in-range toggle_cell has turned an Alive cell Dead on a
\* grid with other cells.
C5_Witness ==
  /\ op.name = "toggle_cell" /\ streak = 1 /\ err = "ok"
  /\ InRange(op.args[1], op.args[2])
  /\ before[get_index(width, op.args[1], op.args[2])] = Alive
  /\ len(cells) > 1

\* C6: after toggle_cell(row, column) was called twice in succession with
\* the same in-range coordinate, the cells are the ones before the first
\* call.
C6_ToggleTwiceRestores ==
  (op.name = "toggle_cell" /\ streak = 2 /\ InRange(op.args[1], op.args[2])) =>
    err = "ok" /\ cells = before

\* C6 witness: the second of two successive toggle_cell calls has returned.
C6_Witness ==
  /\ op.name = "toggle_cell" /\ streak = 2 /\ err = "ok"
  /\ InRange(op.args[1], op.args[2])
  /\ len(cells) > 1

\* The flat indices of the translated targets of an offset list:
\* index(height/2 + row, width/2 + column).
Targets(offsets, w, h) ==
  {get_index(w, h \div 2 + offsets[k][2], w \div 2 + offsets[k][1]) : k \in DOMAIN offsets}

\* Every translated target of the list is a coordinate of the grid.
AllInRange(offsets, w, h) ==
  \A k \in DOMAIN offsets :
    h \div 2 + offsets[k][2] < h /\ w \div 2 + offsets[k][1] < w

AliveSet(C) == {i \in DOMAIN C : C[i] = Alive}

C8_RpentaminoAdditive ==
  /\ (op.name = "make_rpentamino" /\ streak = 1) =>
       \A i \in DOMAIN before : before[i] = Alive => cells[i] = Alive
  /\ op.name = "make_spaceship" => AliveSet(cells) \subseteq Targets(SPACESHIP, width, height)
  /\ op.name = "make_piheptomino" => AliveSet(cells) \subseteq Targets(PIHEPTOMINO, width, height)
  /\ op.name = "make_glider" => AliveSet(cells) \subseteq Targets(GLIDER, width, height)

\* C9: a make_glider() that follows a make_glider() changes nothing: not the
\* cells, not the width, not the height.
C9_GliderIdempotent ==
  [][(op.name = "make_glider" /\ CallOf("make_glider")) =>
       /\ cells' = cells
       /\ width' = width
       /\ height' = height
       /\ err' = "ok"]_vars

\* C9 witness: the second of two successive make_glider calls has returned
\* on a grid the glider fits, which held other content before.
C9_Witness ==
  /\ op.name = "make_glider" /\ streak = 2 /\ err = "ok"
  /\ AllInRange(GLIDER, width, height)
  /\ AliveSet(cells) = Targets(GLIDER, width, height)
  /\ AliveSet(before) # {}
  /\ AliveSet(before) # AliveSet(cells)

\* C10: on a grid with width = 0 or height = 0 no operation ends in an
\* error, and the cell buffer stays empty.
C10_DegenerateIsNoOp ==
  (width = 0 \/ height = 0) => (err = "ok" /\ cells = << >>)

\* The offset list the last call placed; << >> for a call that places none.
OffsetsOf(call) ==
  IF call.name = "set_cells" THEN OffsetLists[call.args[1]]
  ELSE IF call.name = "make_spaceship" THEN SPACESHIP
  ELSE IF call.name = "make_rpentamino" THEN RPENTOMINO
  ELSE IF call.name = "make_piheptomino" THEN PIHEPTOMINO
  ELSE IF call.name = "make_glider" THEN GLIDER
  ELSE << >>

Placements ==
  {"set_cells", "make_spaceship", "make_rpentamino", "make_piheptomino", "make_glider"}

\* The flat indices of the translated targets that are coordinates of the grid.
InRangeTargets(offsets, w, h) ==
  {get_index(w, h \div 2 + offsets[k][2], w \div 2 + offsets[k][1]) :
     k \in {j \in DOMAIN offsets :
              h \div 2 + offsets[j][2] < h /\ w \div 2 + offsets[j][1] < w}}

\* C11: when a translated target of a placement is out of range, the
\* placement skips it or ends in an error (a panic counts as one), and in
\* no case is a cell Alive afterwards that is not an in-range translated
\* target.
C11_PlacementStaysInRange ==
  op.name \in Placements =>
    /\ AliveSet(cells) \subseteq InRangeTargets(OffsetsOf(op), width, height)
    /\ ~AllInRange(OffsetsOf(op), width, height) =>
         \/ err = "panic"
         \/ AliveSet(cells) = InRangeTargets(OffsetsOf(op), width, height)

\* C12: toggle_cell with row >= height or column >= width ends in an error
\* and changes no cell.
C12_ToggleOutOfRangeFails ==
  (op.name = "toggle_cell" /\ streak = 1 /\ ~InRange(op.args[1], op.args[2])) =>
    err = "panic" /\ cells = before

\* C13: on a grid of width >= 4 and height >= 4 whose Alive cells are a
\* 2 x 2 block, at any position of the torus, tick() changes no cell,
\* however often it is called.
C13_BlockIsStill ==
  (op.name = "tick" /\ pc = "idle" /\ width >= 4 /\ height >= 4
     /\ \E r \in 0..(height - 1), c \in 0..(width - 1) :
          AliveSet(before) = BlockAt(width, height, r, c)) =>
    cells = before

\* C13 witness: two ticks of a block that straddles both wrap-around edges.
C13_Witness ==
  /\ op.name = "tick" /\ pc = "idle" /\ streak = 2
  /\ width >= 4 /\ height >= 4
  /\ AliveSet(before) = BlockAt(width, height, height - 1, width - 1)
  /\ AliveSet(cells) = {0, width - 1, (height - 1) * width, height * width - 1}

\* C14: on a grid of width >= 5 and height >= 5 whose Alive cells are a
\* blinker, in a row or in a column, at any position of the torus, the
\* grid differs from the original after one tick() and equals it after two.
C14_BlinkerHasPeriodTwo ==
  (op.name = "tick" /\ pc = "idle" /\ width >= 5 /\ height >= 5
     /\ \E r \in 0..(height - 1), c \in 0..(width - 1) :
          \/ AliveSet(before) = BlinkerRowAt(width, height, r, c)
          \/ AliveSet(before) = BlinkerColumnAt(width, height, r, c)) =>
    /\ streak = 1 => cells # before
    /\ streak = 2 => cells = before

\* C14 witness: two ticks of a blinker in row 0 that straddles the wrap-around
\* edge; after the first it stood in column 0.
C14_Witness ==
  /\ op.name = "tick" /\ pc = "idle" /\ streak = 2
  /\ width >= 5 /\ height >= 5
  /\ AliveSet(before) = BlinkerRowAt(width, height, 0, 0)
  /\ AliveSet(cells) = {width - 1, 0, 1}

\* The 8 toroidal neighbours of the cell (0, 0).
NeighboursOfOrigin(w, h) ==
  {<<r, c>> \in {0, 1, h - 1} \X {0, 1, w - 1} : <<r, c>> # <<0, 0>>}

\* C15: on a grid of width >= 3 and height >= 3 whose only Alive cell is
\* (0, 0), live_neighbor_count is 1 for each of the 8 toroidal neighbours
\* of (0, 0), the ones across the wrap-around edges included, and 0 for
\* every other cell.
C15_WrapAround ==
  (pc = "idle" /\ width >= 3 /\ height >= 3 /\ AliveSet(cells) = {0}) =>
    /\ \A rc \in {<<height - 1, width - 1>>, <<0, width - 1>>, <<height - 1, 0>>,
                  <<height - 1, 1>>, <<1, width - 1>>, <<0, 1>>, <<1, 0>>, <<1, 1>>} :
         live_neighbor_count(cells, width, height, rc[1], rc[2]) = 1
    /\ \A r \in 0..(height - 1), c \in 0..(width - 1) :
         <<r, c>> \notin NeighboursOfOrigin(width, height) =>
           live_neighbor_count(cells, width, height, r, c) = 0

\* C15 witness: the sweep of tick() has counted the neighbours of every
\* cell of a grid that has cells which are no neighbours of (0, 0); with
\* counts of 1 and 0 only, no cell is Alive in `next`.
C15_Witness ==
  /\ pc = "sweep" /\ row = height /\ streak = 1
  /\ width >= 4 /\ height >= 4
  /\ AliveSet(cells) = {0}
  /\ AliveSet(next) = {}
  /\ live_neighbor_count(cells, width, height, height - 1, width - 1) = 1

\* C16: in every reachable state of a grid with width >= 1 and height >= 1,
\* live_neighbor_count(row, column) is in 0..8 for every cell of the grid.
C16_CountAtMostEight ==
  (width >= 1 /\ height >= 1) =>
    \A r \in 0..(height - 1), c \in 0..(width - 1) :
      live_neighbor_count(cells, width, height, r, c) \in 0..8

\* C16 witness: inside tick(), a cell of a 3 x 3 grid has 8 live neighbours.
C16_Witness ==
  /\ pc = "sweep" /\ row < height
  /\ width = 3 /\ height = 3
  /\ live_neighbor_count(cells, width, height, row, col) = 8

\* C17: every get_index call the engine makes has row < height and
\* column < width: the ones of the sweep of tick() and of the neighbour
\* scan, and the ones of a pattern placement, on every grid size.
C17_IndexArgsInRange ==
  /\ (pc = "sweep" /\ row < height) =>
       \A a \in tick_index_args(width, height, row, col) : InRange(a[1], a[2])
  /\ op.name \in Placements =>
       \A a \in place_index_args(len(cells), width, middle(width, height), OffsetsOf(op)) :
         InRange(a[1], a[2])

\* C18: while the sweep of tick() is in progress the grid's cells are the
\* complete generation of before the tick, the new values are only in the
\* separate buffer (new up to the loop position, old from there on), and
\* once tick() is over the cells are the complete next generation.
C18_TickIsAtomic ==
  op.name = "tick" =>
    LET old == Generations(before, width, height, streak - 1)
        new == Generation(old, width, height)
    IN  /\ pc = "sweep" =>
             /\ cells = old
             /\ next = [i \in DOMAIN old |->
                          IF i < row * width + col THEN new[i] ELSE old[i]]
        /\ pc = "idle" => cells = new

\* C18 witness: the sweep of a first tick() is over, the separate buffer
\* differs from the grid, and the grid is still the one before the tick.
C18_Witness ==
  /\ op.name = "tick" /\ streak = 1
  /\ pc = "sweep" /\ row = height /\ height >= 1
  /\ cells = before
  /\ next # cells

Resizers == {"set_width", "set_height", "set_dimensions"}

\* C19: a step of tick(), toggle_cell, set_cells (with the clear_grid it
\* starts with) or a make_* operation changes neither width nor height;
\* set_width leaves height unchanged and set_height leaves width unchanged.
C19_OnlyResizersChangeDimensions ==
  [][/\ op'.name \notin Resizers => (width' = width /\ height' = height)
     /\ op'.name = "set_width" => height' = height
     /\ op'.name = "set_height" => width' = width]_vars

\* C19 witness: set_height has changed the length of the buffer of a grid
\* of width 2, and the width is still 2.
C19_Witness ==
  /\ op.name = "set_height" /\ streak = 1
  /\ width = 2
  /\ len(cells) # len(before)
  /\ len(cells) = 2 * height

\* C20: set_width, set_height and set_dimensions leave every cell Dead, and
\* from a grid whose cells are all Dead no step makes a cell Alive except
\* toggle_cell, set_cells or a make_* operation: every step of tick()
\* leaves the all-Dead grid all Dead, for any number of ticks in a row.
C20_AllDeadIsFixedPoint ==
  [][/\ op'.name \in Resizers => AliveSet(cells') = {}
     /\ (AliveSet(cells) = {} /\ AliveSet(cells') # {}) =>
          op'.name \in Placements \cup {"toggle_cell"}]_vars

\* C20 witness: two tick() calls in a row on an all-Dead grid with cells,
\* and every cell is Dead afterwards.
C20_Witness ==
  /\ op.name = "tick" /\ streak = 2 /\ pc = "idle"
  /\ len(cells) > 0
  /\ AliveSet(before) = {}
  /\ AliveSet(cells) = {}

====
